---- MODULE Spec2Model ----
(***************************************************************************)
(* A model of the Pokemon battle simulation and of the genetic algorithm   *)
(* that evolves teams.                                                     *)
(*                                                                         *)
(*   Battle     poke_battle.py: battle(), one step per program position of *)
(*              the while loop (loop head, team 1 action, team 2 action,   *)
(*              faint handling after damage).                              *)
(*   FairBattle Battle with weak fairness: the single-threaded loop always *)
(*              takes its next step.                                       *)
(*   Evolution  process.py: run_evolution(), one step per call of the loop *)
(*              body (evaluate_fitness, the two writers, one offspring of  *)
(*              crossover, mutation) and one for the return.               *)
(*                                                                         *)
(* Team, Pokemon and the combat helpers are imported by the sources but    *)
(* are not part of them; they are modelled from the specification text:    *)
(* a Pokemon has one type and one move of that type, so the damage of its  *)
(* best attack is the multiplier of its type against the target's type.    *)
(* The outcome of a battle inside evaluate_fitness is an arbitrary input.  *)
(* Hit points and damage are integers. Indexes are 1-based here, 0-based   *)
(* in the code. While one of the two programs runs, the variables of the   *)
(* other keep their idle values.                                           *)
(***************************************************************************)
EXTENDS Integers, Sequences, FiniteSets, TLC

VARIABLES
    \* ---- battle(team1, team2, effectiveness) ----
    team1,           \* [pokemons, idx, tried]
    team2,
    effectiveness,   \* attacking type -> defending type -> multiplier
    turn,
    bpc,             \* position in battle(): "loop", "actA", "actB", "post", "done", "idle"
    action1, target1,
    action2, target2,
    team1_pokemon,   \* the locals of lines 93-94: slots of the Pokemon objects
    team2_pokemon,
    winner,
    event,           \* the last line battle() printed about an action
    start,           \* history: both teams as they were when the actions were decided
    \* ---- run_evolution() ----
    teams,           \* the population: a sequence of [name, pokemons]
    children,        \* crossover's offspring list
    fitness_results, \* evaluate_fitness' second result: <<team name, wins>> pairs
    k,               \* the epoch
    epc,             \* position in run_evolution(): "evaluate", "write", "crossover",
                     \* "return", "done", "idle"
    ranked_indices,  \* crossover's ranked_indices[0..1] for the offspring built last
    population,      \* history: the teams handed to the last evaluate_fitness
    best_teams_file, \* the lines written to mejores.csv
    epochs_file,     \* the lines written to epochs.csv
    opponents,       \* evaluate_fitness' local pool, until its results are written
    fights,          \* history: the get_winner calls of the last evaluate_fitness
    evaluations,     \* history: calls of evaluate_fitness so far
    crossovers,      \* history: calls of crossover that returned
    mutations,       \* history: calls of mutation that returned
    battle_team      \* the team run_evolution returns

bvars == <<team1, team2, effectiveness, turn, bpc, action1, target1, action2,
           target2, team1_pokemon, team2_pokemon, winner, event, start>>

evars == <<teams, children, fitness_results, k, epc, ranked_indices, population,
           best_teams_file, epochs_file, opponents, fights, evaluations,
           crossovers, mutations, battle_team>>

vars == <<bvars, evars>>

\* ------------------------------------------------------------------ bounds

\* Pokemon per team in a battle (6 in the game).
BattleTeamSize == 2
\* Hit points of a Pokemon at full health.
MaxHP == 3
\* The turn counter saturates here: it is only printed, and a battle that
\* never ends would otherwise have infinitely many states.
MaxTurn == 6

\* --------------------------------------------------------------- helpers

Min(S) == CHOOSE x \in S : \A y \in S : x <= y

Slots == 1..BattleTeamSize

Types == {"normal", "ghost"}

\* Observed multipliers: no effect, neutral, super effective.
Multipliers == {0, 1, 2}

\* A decision to switch needs a matchup below this multiplier.
SwitchThreshold == 1

NoEvent == [kind |-> "none", side |-> 0, attacker_hp |-> 0, damage |-> 0]

\* ------------------------------------------------ Pokemon and Team (spec)

\* combinedMultiplier for single-typed Pokemon: one lookup.
Mult(attacker, target) == effectiveness[attacker.ptype][target.ptype]

\* Pokemon.get_best_attack: the damage of the best move. Every Pokemon has
\* one move of its own type with power 1, so the damage is the multiplier.
get_best_attack(attacker, target) == Mult(attacker, target)

\* Team.get_current_pokemon: the Pokemon in the active slot.
get_current_pokemon(team) == team.pokemons[team.idx]

Fainted(p) == p.current_hp <= 0

\* poke_battle.py:91, one side of the while condition.
AnyAlive(team) == \E i \in Slots : team.pokemons[i].current_hp > 0

\* Non-fainted, untried alternatives with a better matchup than the current one.
Better(team, opponent) ==
    {s \in Slots : /\ s # team.idx
                   /\ s \notin team.tried
                   /\ ~Fainted(team.pokemons[s])
                   /\ Mult(team.pokemons[s], get_current_pokemon(opponent))
                        > Mult(get_current_pokemon(team), get_current_pokemon(opponent))}

\* Team.get_next_action: <<action, target>>.
get_next_action(team, opponent) ==
    IF /\ Mult(get_current_pokemon(team), get_current_pokemon(opponent)) < SwitchThreshold
       /\ Better(team, opponent) # {}
    THEN <<"switch", Min(Better(team, opponent))>>
    ELSE <<"attack", opponent.idx>>

\* Team.do_action for a switch: the active slot becomes the target.
do_action(team, target) ==
    [team EXCEPT !.idx = target, !.tried = @ \cup {target}]

\* One side of __faint_change__: a fainted current Pokemon is replaced by
\* the first one that has not fainted, if there is one.
faint_switch(team) ==
    IF Fainted(get_current_pokemon(team)) /\ AnyAlive(team)
    THEN LET n == Min({s \in Slots : ~Fainted(team.pokemons[s])})
         IN  [team EXCEPT !.idx = n, !.tried = @ \cup {n}]
    ELSE team

\* get_winner after the loop: team 1 loses when it has nobody left.
get_winner(t1, t2) == IF AnyAlive(t1) THEN "team1" ELSE "team2"

\* poke_battle.py:116 and 125: current_hp -= damage.
Hit(team, slot, damage) ==
    [team EXCEPT !.pokemons[slot].current_hp = @ - damage]

\* ----------------------------------------------------------------- battle

\* run_evolution() is not running.
EvolutionIdle ==
    /\ teams = <<>>
    /\ children = <<>>
    /\ fitness_results = <<>>
    /\ k = 0
    /\ epc = "idle"
    /\ ranked_indices = <<>>
    /\ population = <<>>
    /\ best_teams_file = <<>>
    /\ epochs_file = <<>>
    /\ opponents = <<>>
    /\ fights = <<>>
    /\ evaluations = 0
    /\ crossovers = 0
    /\ mutations = 0
    /\ battle_team = <<>>

\* The teams a battle is started with: Pokemon of any type, the first n of
\* them fainted in earlier fights and the others at full health, slot 1 active.
TeamStates ==
    {[pokemons |-> [s \in Slots |->
                      [ptype |-> types[s], max_hp |-> MaxHP,
                       current_hp |-> IF s <= n THEN 0 ELSE MaxHP]],
      idx |-> 1, tried |-> {1}] :
        types \in [Slots -> Types], n \in 0..BattleTeamSize}

BattleInit ==
    /\ team1 \in TeamStates
    /\ team2 \in TeamStates
    /\ effectiveness \in [Types -> [Types -> Multipliers]]
    /\ turn = 0
    /\ bpc = "loop"
    /\ action1 = "none" /\ target1 = 0
    /\ action2 = "none" /\ target2 = 0
    /\ team1_pokemon = 1
    /\ team2_pokemon = 1
    /\ winner = "none"
    /\ event = NoEvent
    /\ start = <<team1, team2>>
    /\ EvolutionIdle

\* poke_battle.py:91 false, then 140: the loop ends and the winner is named.
LoopExit ==
    /\ UNCHANGED evars
    /\ bpc = "loop"
    /\ ~(AnyAlive(team1) /\ AnyAlive(team2))
    /\ winner' = get_winner(team1, team2)
    /\ bpc' = "done"
    /\ event' = NoEvent
    /\ UNCHANGED <<team1, team2, effectiveness, turn, action1, target1, action2,
                   target2, team1_pokemon, team2_pokemon, start>>

\* The faint branch without its continue: the turn is counted.
FaintBranch_counts_turn ==
    /\ UNCHANGED evars
    /\ bpc = "loop"
    /\ AnyAlive(team1) /\ AnyAlive(team2)
    /\ \/ Fainted(get_current_pokemon(team1))
       \/ Fainted(get_current_pokemon(team2))
    /\ team1' = faint_switch(team1)
    /\ team2' = faint_switch(team2)
    /\ team1_pokemon' = team1.idx
    /\ team2_pokemon' = team2.idx
    /\ event' = [NoEvent EXCEPT !.kind = "faint_change"]
    /\ turn' = IF turn < MaxTurn THEN turn + 1 ELSE turn
    /\ UNCHANGED <<effectiveness, bpc, action1, target1, action2, target2,
                   winner, start>>

\* poke_battle.py:99-103: a fainted current Pokemon; __faint_change__, continue.
FaintBranch ==
    /\ UNCHANGED evars
    /\ bpc = "loop"
    /\ AnyAlive(team1) /\ AnyAlive(team2)
    /\ \/ Fainted(get_current_pokemon(team1))
       \/ Fainted(get_current_pokemon(team2))
    /\ team1' = faint_switch(team1)
    /\ team2' = faint_switch(team2)
    /\ team1_pokemon' = team1.idx
    /\ team2_pokemon' = team2.idx
    /\ event' = [NoEvent EXCEPT !.kind = "faint_change"]
    /\ UNCHANGED <<effectiveness, turn, bpc, action1, target1, action2, target2,
                   winner, start>>

\* poke_battle.py:93-107: the locals and both decisions.
Decide ==
    /\ UNCHANGED evars
    /\ bpc = "loop"
    /\ AnyAlive(team1) /\ AnyAlive(team2)
    /\ ~Fainted(get_current_pokemon(team1))
    /\ ~Fainted(get_current_pokemon(team2))
    /\ team1_pokemon' = team1.idx
    /\ team2_pokemon' = team2.idx
    /\ action1' = get_next_action(team1, team2)[1]
    /\ target1' = get_next_action(team1, team2)[2]
    /\ action2' = get_next_action(team2, team1)[1]
    /\ target2' = get_next_action(team2, team1)[2]
    /\ start' = <<team1, team2>>
    /\ event' = NoEvent
    /\ bpc' = "actA"
    /\ UNCHANGED <<team1, team2, effectiveness, turn, winner>>

\* The two actions in the other order: team 2's action is applied first.
Team1Action_after_team2 ==
    /\ UNCHANGED evars
    /\ bpc = "actA"
    /\ IF action2 = "switch"
       THEN /\ team2' = do_action(team2, target2)
            /\ team1' = team1
            /\ event' = [NoEvent EXCEPT !.kind = "switch", !.side = 2]
       ELSE LET attacker == team2.pokemons[team2_pokemon]
                damage == get_best_attack(attacker, team1.pokemons[team1_pokemon])
            IN  /\ team1' = Hit(team1, team1_pokemon, damage)
                /\ team2' = team2
                /\ event' = [kind |-> "attack", side |-> 2,
                             attacker_hp |-> attacker.current_hp, damage |-> damage]
    /\ bpc' = "actB"
    /\ UNCHANGED <<effectiveness, turn, action1, target1, action2, target2,
                   team1_pokemon, team2_pokemon, winner, start>>

\* Team 1's action with an accuracy roll: the attack may miss.
Team1Action_may_miss ==
    /\ UNCHANGED evars
    /\ bpc = "actA"
    /\ IF action1 = "switch"
       THEN /\ team1' = do_action(team1, target1)
            /\ team2' = team2
            /\ event' = [NoEvent EXCEPT !.kind = "switch", !.side = 1]
       ELSE LET attacker == team1.pokemons[team1_pokemon]
            IN  \E damage \in {0, get_best_attack(attacker, team2.pokemons[team2_pokemon])} :
                    /\ team2' = Hit(team2, team2_pokemon, damage)
                    /\ team1' = team1
                    /\ event' = [kind |-> "attack", side |-> 1,
                                 attacker_hp |-> attacker.current_hp, damage |-> damage]
    /\ bpc' = "actB"
    /\ UNCHANGED <<effectiveness, turn, action1, target1, action2, target2,
                   team1_pokemon, team2_pokemon, winner, start>>

\* poke_battle.py:110-116: team 1's action.
Team1Action ==
    /\ UNCHANGED evars
    /\ bpc = "actA"
    /\ IF action1 = "switch"
       THEN /\ team1' = do_action(team1, target1)
            /\ team2' = team2
            /\ event' = [NoEvent EXCEPT !.kind = "switch", !.side = 1]
       ELSE LET attacker == team1.pokemons[team1_pokemon]
                damage == get_best_attack(attacker, team2.pokemons[team2_pokemon])
            IN  /\ team2' = Hit(team2, team2_pokemon, damage)
                /\ team1' = team1
                /\ event' = [kind |-> "attack", side |-> 1,
                             attacker_hp |-> attacker.current_hp, damage |-> damage]
    /\ bpc' = "actB"
    /\ UNCHANGED <<effectiveness, turn, action1, target1, action2, target2,
                   team1_pokemon, team2_pokemon, winner, start>>

\* Team 2's action aimed at team 1's current Pokemon instead of the local
\* of line 93: after a switch by team 1 the attack hits the one that came in.
Team2Action_hits_current ==
    /\ UNCHANGED evars
    /\ bpc = "actB"
    /\ IF action2 = "switch"
       THEN /\ team2' = do_action(team2, target2)
            /\ team1' = team1
            /\ event' = [NoEvent EXCEPT !.kind = "switch", !.side = 2]
       ELSE LET attacker == team2.pokemons[team2_pokemon]
                damage == get_best_attack(attacker, get_current_pokemon(team1))
            IN  /\ team1' = Hit(team1, team1.idx, damage)
                /\ team2' = team2
                /\ event' = [kind |-> "attack", side |-> 2,
                             attacker_hp |-> attacker.current_hp, damage |-> damage]
    /\ bpc' = "post"
    /\ UNCHANGED <<effectiveness, turn, action1, target1, action2, target2,
                   team1_pokemon, team2_pokemon, winner, start>>

\* poke_battle.py:119-125: team 2's action.
Team2Action ==
    /\ UNCHANGED evars
    /\ bpc = "actB"
    /\ IF action2 = "switch"
       THEN /\ team2' = do_action(team2, target2)
            /\ team1' = team1
            /\ event' = [NoEvent EXCEPT !.kind = "switch", !.side = 2]
       ELSE LET attacker == team2.pokemons[team2_pokemon]
                damage == get_best_attack(attacker, team1.pokemons[team1_pokemon])
            IN  /\ team1' = Hit(team1, team1_pokemon, damage)
                /\ team2' = team2
                /\ event' = [kind |-> "attack", side |-> 2,
                             attacker_hp |-> attacker.current_hp, damage |-> damage]
    /\ bpc' = "post"
    /\ UNCHANGED <<effectiveness, turn, action1, target1, action2, target2,
                   team1_pokemon, team2_pokemon, winner, start>>

\* poke_battle.py:132-137: faint handling after damage, then turn += 1.
AfterDamage ==
    /\ UNCHANGED evars
    /\ bpc = "post"
    /\ IF \/ Fainted(team1.pokemons[team1_pokemon])
          \/ Fainted(team2.pokemons[team2_pokemon])
       THEN /\ team1' = faint_switch(team1)
            /\ team2' = faint_switch(team2)
            /\ event' = [NoEvent EXCEPT !.kind = "faint_change"]
       ELSE /\ UNCHANGED <<team1, team2>>
            /\ event' = NoEvent
    /\ turn' = IF turn < MaxTurn THEN turn + 1 ELSE turn
    /\ bpc' = "loop"
    /\ UNCHANGED <<effectiveness, action1, target1, action2, target2,
                   team1_pokemon, team2_pokemon, winner, start>>

BattleNext ==
    \/ LoopExit
    \/ FaintBranch
    \/ Decide
    \/ Team1Action
    \/ Team2Action
    \/ AfterDamage

Battle == BattleInit /\ [][BattleNext]_vars

FairBattle == Battle /\ WF_vars(BattleNext)

\* -------------------------------------------------------------- evolution

\* Pokemon per team of the population (6 in process.py:77 and 166).
TeamSize == 3
\* Teams in the population and offspring per crossover (50 in process.py).
PopSize == 2
\* Opponents per evaluation (40 in process.py).
OpponentsCount == 1
\* Epochs of a run (5 in process.py).
Epochs == 2
\* Parents whose random score is weighted (20 in process.py).
EliteCount == 1
\* The weight of an elite parent's score, process.py:158.
EliteWeight == 3
\* The catalogue has NumSpecies rows; the last one is legendary.
NumSpecies == 4
\* random.random() takes one of ScoreLevels values; with four of them a
\* score without the weight can exceed a weighted one that is not zero.
ScoreLevels == 4
\* Slots that one call of mutation() replaces at most.
MaxMutations == 1
\* The tag "E" of the opponent teams; the tags of the population are the
\* epochs 0, 1, 2, ...
EvaluationTag == -1

pokemon_data == 1..NumSpecies

is_legendary(s) == s = NumSpecies

\* The catalogue without the filter on is_legendary.
pokemon_unfiltered == pokemon_data

\* process.py:27.
non_legendary_pokemon == {s \in pokemon_data : ~is_legendary(s)}

\* DataFrame.sample(n=count, replace=False): count different rows, in any order.
Samples(count) ==
    {q \in [1..count -> non_legendary_pokemon] :
        \A a, b \in 1..count : a # b => q[a] # q[b]}

\* process.py:30-61 for one sampled list q of rows. A Pokemon object is its
\* name and its identity; gen, team and slot say where it was created.
get_random_pokemon_list(q, gen, team) ==
    [j \in 1..Len(q) |-> [name |-> q[j], id |-> <<gen, team, j>>]]

\* A team whose name leaves out its number: f"Team {tag}".
Team_unnumbered(i, tag, pokemons) == [name |-> <<0, tag>>, pokemons |-> pokemons]

\* process.py:78 and 183: Team(f"Team {i}-{tag}", pokemons).
Team(i, tag, pokemons) == [name |-> <<i, tag>>, pokemons |-> pokemons]

\* process.py:64-80, with the rows each team samples. The objects created
\* for the population tagged tag are told apart from all others by the tag.
initialize_population(rows, tag) ==
    [i \in 1..Len(rows) |-> Team(i - 1, tag, get_random_pokemon_list(rows[i], tag, i))]

Count(f) == Cardinality({o \in DOMAIN f : f[o]})

\* process.py:125-127: the calls of get_winner in the order of the two
\* loops; results[i][o] says whether get_winner returned team i against
\* opponent o.
RECURSIVE fight_log(_, _, _, _, _)
fight_log(ts, opps, results, idx, o) ==
    IF idx > Len(ts) THEN <<>>
    ELSE IF o > Len(opps) THEN fight_log(ts, opps, results, idx + 1, 1)
    ELSE <<[team |-> idx, opponent |-> opps[o].name, won |-> results[idx][o]]>>
         \o fight_log(ts, opps, results, idx, o + 1)

\* A counter that adds one for every battle, won or not.
wins_counts_battles(ts, results) ==
    [i \in 1..Len(ts) |-> <<ts[i].name, Cardinality(DOMAIN results[i])>>]

\* process.py:122-129: one battle per team and opponent, one win counted when
\* get_winner returned the team.
wins_per_team(ts, results) ==
    [i \in 1..Len(ts) |-> <<ts[i].name, Count(results[i])>>]

\* Inserts x behind every element whose key is at least x's.
RECURSIVE insert_desc(_, _, _)
insert_desc(sorted, x, key) ==
    IF sorted = <<>> THEN <<x>>
    ELSE IF sorted[1][key] >= x[key]
         THEN <<sorted[1]>> \o insert_desc(Tail(sorted), x, key)
         ELSE <<x>> \o sorted

\* A sort that is not stable: x goes before the elements with its key.
RECURSIVE insert_desc_before(_, _, _)
insert_desc_before(sorted, x, key) ==
    IF sorted = <<>> THEN <<x>>
    ELSE IF sorted[1][key] > x[key]
         THEN <<sorted[1]>> \o insert_desc_before(Tail(sorted), x, key)
         ELSE <<x>> \o sorted

RECURSIVE sort_from_unstable(_, _, _, _)
sort_from_unstable(items, n, sorted, key) ==
    IF n > Len(items) THEN sorted
    ELSE sort_from_unstable(items, n + 1, insert_desc_before(sorted, items[n], key), key)

sorted_desc_unstable(items, key) == sort_from_unstable(items, 1, <<>>, key)

RECURSIVE sort_from(_, _, _, _)
sort_from(items, n, sorted, key) ==
    IF n > Len(items) THEN sorted
    ELSE sort_from(items, n + 1, insert_desc(sorted, items[n], key), key)

\* sorted(items, key=itemgetter(key), reverse=True): descending and stable.
sorted_desc(items, key) == sort_from(items, 1, <<>>, key)

\* process.py:133-138: the first team that has the name.
team_named(ts, name) == ts[Min({i \in 1..Len(ts) : ts[i].name = name})]

best_teams(ts, sorted_results) ==
    [p \in 1..Len(sorted_results) |-> team_named(ts, sorted_results[p][1])]

\* A weight that leaves the teams behind the first EliteCount without score.
weighted_elite_only(random_scores) ==
    [i \in 1..PopSize |->
        <<i, IF i <= EliteCount THEN random_scores[i] * EliteWeight ELSE 0>>]

\* process.py:156-162 for one offspring: the scores, the weight of the
\* first EliteCount, and the two indexes that rank first.
weighted(random_scores) ==
    [i \in 1..PopSize |->
        <<i, IF i <= EliteCount THEN random_scores[i] * EliteWeight ELSE random_scores[i]>>]

ranked(random_scores) ==
    LET r == sorted_desc(weighted(random_scores), 2)
    IN  <<r[1][1], r[2][1]>>

Names(pokes) == {pokes[i].name : i \in 1..Len(pokes)}

\* pick_slot without the test for a name that is already there.
pick_slot_no_fallback(ts, pokes, j, first, second) ==
    Append(pokes, ts[first].pokemons[j])

\* pick_slot whose fallback reads the other parent's next slot.
pick_slot_other_slot(ts, pokes, j, first, second) ==
    LET candidate == ts[first].pokemons[j]
    IN  IF candidate.name \in Names(pokes)
        THEN Append(pokes, ts[second].pokemons[1 + (j % TeamSize)])
        ELSE Append(pokes, candidate)

\* process.py:168-173 and 175-180: the candidate of the parent picked by the
\* coin, or the same slot of the other parent when its name is already there.
pick_slot(ts, pokes, j, first, second) ==
    LET candidate == ts[first].pokemons[j]
    IN  IF candidate.name \in Names(pokes)
        THEN Append(pokes, ts[second].pokemons[j])
        ELSE Append(pokes, candidate)

\* process.py:164-181: the while loop over the slots; coins[j] is
\* random.random() >= 0.5.
RECURSIVE build_pokes(_, _, _, _, _)
build_pokes(ts, ri, coins, j, pokes) ==
    IF j > TeamSize THEN pokes
    ELSE build_pokes(ts, ri, coins, j + 1,
                     IF coins[j] THEN pick_slot(ts, pokes, j, ri[1], ri[2])
                                 ELSE pick_slot(ts, pokes, j, ri[2], ri[1]))

\* A mutation that removes the slot it should replace.
mutate_remove(ts, muts, fresh, gen) ==
    [i \in 1..Len(ts) |->
        [ts[i] EXCEPT !.pokemons =
            SelectSeq([j \in 1..Len(ts[i].pokemons) |->
                          IF <<i, j>> \in muts THEN [name |-> 0, id |-> <<>>]
                                               ELSE ts[i].pokemons[j]],
                      LAMBDA q : q.name # 0)]]

\* process.py:197-198: the slots in muts are replaced by new Pokemon.
mutate(ts, muts, fresh, gen) ==
    [i \in 1..Len(ts) |->
        [ts[i] EXCEPT !.pokemons =
            [j \in 1..Len(ts[i].pokemons) |->
                IF <<i, j>> \in muts
                THEN [name |-> fresh[<<i, j>>], id |-> <<gen, i, j>>]
                ELSE ts[i].pokemons[j]]]]

\* process.py:231-240: the record of the best team.
best_team_line(bt, fitness_list) ==
    [epoch |-> bt[1].name[2], fitness |-> fitness_list[1][2],
     team_name |-> fitness_list[1][1], starter |-> 0,
     pokemons |-> [j \in 1..Len(bt[1].pokemons) |-> bt[1].pokemons[j].name]]

\* process.py:209-214: the epoch and the number of different names.
epochs_line(ts, epoch) ==
    [epoch |-> epoch,
     distinct |-> Cardinality(UNION {Names(ts[i].pokemons) : i \in 1..Len(ts)})]

BattleIdle ==
    /\ team1 = <<>>
    /\ team2 = <<>>
    /\ effectiveness = <<>>
    /\ turn = 0
    /\ bpc = "idle"
    /\ action1 = "none" /\ target1 = 0
    /\ action2 = "none" /\ target2 = 0
    /\ team1_pokemon = 0
    /\ team2_pokemon = 0
    /\ winner = "none"
    /\ event = NoEvent
    /\ start = <<>>

\* process.py:252-256.
EvolutionInit ==
    /\ BattleIdle
    /\ \E rows \in [1..PopSize -> Samples(TeamSize)] :
          teams = initialize_population(rows, 0)
    /\ children = <<>>
    /\ fitness_results = <<>>
    /\ k = 1
    /\ epc = "evaluate"
    /\ ranked_indices = <<>>
    /\ population = <<>>
    /\ best_teams_file = <<>>
    /\ epochs_file = <<>>
    /\ opponents = <<>>
    /\ fights = <<>>
    /\ evaluations = 0
    /\ crossovers = 0
    /\ mutations = 0
    /\ battle_team = <<>>

\* process.py:260: teams, fitness_results = evaluate_fitness(...).
Evaluate ==
    /\ UNCHANGED bvars
    /\ epc = "evaluate"
    /\ \E rows \in [1..OpponentsCount -> Samples(TeamSize)],
          results \in [1..PopSize -> [1..OpponentsCount -> BOOLEAN]] :
          LET opps == initialize_population(rows, EvaluationTag)
              sorted_results == sorted_desc(wins_per_team(teams, results), 2)
          IN  /\ opponents' = opps
              /\ fights' = fight_log(teams, opps, results, 1, 1)
              /\ fitness_results' = sorted_results
              /\ teams' = best_teams(teams, sorted_results)
    /\ population' = teams
    /\ evaluations' = evaluations + 1
    /\ epc' = "write"
    /\ UNCHANGED <<children, k, ranked_indices, best_teams_file, epochs_file,
                   crossovers, mutations, battle_team>>

\* A loop that leaves one epoch early: no evaluation follows the last
\* crossover and mutation.
Write_stops_early ==
    /\ UNCHANGED bvars
    /\ epc = "write"
    /\ best_teams_file' = Append(best_teams_file, best_team_line(teams, fitness_results))
    /\ epochs_file' = Append(epochs_file, epochs_line(teams, k))
    /\ epc' = IF k < Epochs - 1 THEN "crossover" ELSE "return"
    /\ opponents' = <<>>
    /\ fights' = <<>>
    /\ UNCHANGED <<teams, children, fitness_results, k, ranked_indices, population,
                   evaluations, crossovers, mutations, battle_team>>

\* process.py:261-264: both records, then the test of the epoch.
Write ==
    /\ UNCHANGED bvars
    /\ epc = "write"
    /\ best_teams_file' = Append(best_teams_file, best_team_line(teams, fitness_results))
    /\ epochs_file' = Append(epochs_file, epochs_line(teams, k))
    /\ epc' = IF k < Epochs THEN "crossover" ELSE "return"
    /\ opponents' = <<>>
    /\ fights' = <<>>
    /\ UNCHANGED <<teams, children, fitness_results, k, ranked_indices, population,
                   evaluations, crossovers, mutations, battle_team>>

\* process.py:155-183: one iteration of crossover's loop, one offspring.
Crossover ==
    /\ UNCHANGED bvars
    /\ epc = "crossover"
    /\ Len(children) < PopSize
    /\ \E random_scores \in [1..PopSize -> 0..(ScoreLevels - 1)],
          coins \in [1..TeamSize -> BOOLEAN] :
          /\ ranked_indices' = ranked(random_scores)
          /\ children' = Append(children,
                Team(Len(children), k,
                     build_pokes(teams, ranked(random_scores), coins, 1, <<>>)))
    /\ crossovers' = IF Len(children) + 1 = PopSize THEN crossovers + 1
                      ELSE crossovers
    /\ UNCHANGED <<teams, fitness_results, k, epc, population, best_teams_file,
                   epochs_file, opponents, fights, evaluations, mutations,
                   battle_team>>

\* process.py:266-267 and the next k: mutation(children), teams = children.
Mutation ==
    /\ UNCHANGED bvars
    /\ epc = "crossover"
    /\ Len(children) = PopSize
    /\ \E muts \in SUBSET ((1..PopSize) \X (1..TeamSize)) :
          /\ Cardinality(muts) <= MaxMutations
          /\ \E fresh \in [muts -> non_legendary_pokemon] :
                teams' = mutate(children, muts, fresh, k)
    /\ children' = <<>>
    /\ k' = k + 1
    /\ mutations' = mutations + 1
    /\ epc' = "evaluate"
    /\ UNCHANGED <<fitness_results, ranked_indices, population, best_teams_file,
                   epochs_file, opponents, fights, evaluations, crossovers,
                   battle_team>>

\* process.py:269-273: battle_team = teams[0], returned after the loop.
Return ==
    /\ UNCHANGED bvars
    /\ epc = "return"
    /\ battle_team' = teams[1]
    /\ epc' = "done"
    /\ UNCHANGED <<teams, children, fitness_results, k, ranked_indices, population,
                   best_teams_file, epochs_file, opponents, fights, evaluations,
                   crossovers, mutations>>

EvolutionNext ==
    \/ Evaluate
    \/ Write
    \/ Crossover
    \/ Mutation
    \/ Return

Evolution == EvolutionInit /\ [][EvolutionNext]_vars

\* ------------------------------------------------------- claims on battle

\* C1 (as claimed): every Pokemon's current_hp stays within [0, max_hp] in
\* every state of a battle.
C1_HpWithinBounds ==
    \A team \in {team1, team2} : \A s \in Slots :
        /\ team.pokemons[s].current_hp >= 0
        /\ team.pokemons[s].current_hp <= team.pokemons[s].max_hp

\* C2 (as claimed): a battle between two teams that each start with a
\* Pokemon that has not fainted reaches the end of the loop.
C2_Terminates ==
    (AnyAlive(team1) /\ AnyAlive(team2)) => <>(bpc = "done")

\* C3 (as claimed): a Pokemon whose hit points have reached zero never
\* executes an attack.
C3_FaintedNeverActs ==
    event.kind = "attack" => event.attacker_hp > 0

\* C7: the two decisions are those of get_next_action on the teams as they
\* were at the start of the turn; nothing has changed when team 1 is about
\* to act; when team 2 is about to act, team 1's action is applied in full
\* and nothing of team 2's action is; after team 2's action, that is applied
\* too.
C7_DecideThenOrder ==
    /\ bpc \in {"actA", "actB", "post"} =>
          /\ <<action1, target1>> = get_next_action(start[1], start[2])
          /\ <<action2, target2>> = get_next_action(start[2], start[1])
          /\ team1_pokemon = start[1].idx
          /\ team2_pokemon = start[2].idx
    /\ bpc = "actA" => team1 = start[1] /\ team2 = start[2]
    /\ bpc = "actB" =>
          /\ team1.pokemons = start[1].pokemons
          /\ team2.idx = start[2].idx
          /\ action1 = "switch" => team1.idx = target1 /\ team2 = start[2]
          /\ action1 = "attack" =>
                /\ team1 = start[1]
                /\ team2 = Hit(start[2], team2_pokemon,
                               get_best_attack(get_current_pokemon(start[1]),
                                               get_current_pokemon(start[2])))
    /\ bpc = "post" =>
          /\ action2 = "switch" => team2.idx = target2
          /\ action2 = "attack" =>
                team1.pokemons[team1_pokemon].current_hp
                    = start[1].pokemons[team1_pokemon].current_hp
                      - get_best_attack(team2.pokemons[team2_pokemon],
                                        start[1].pokemons[team1_pokemon])

\* C7's case: both sides attack, team 1's damage is applied and team 2 is
\* about to act.
C7_Witness ==
    /\ bpc = "actB"
    /\ action1 = "attack" /\ action2 = "attack"
    /\ event.kind = "attack" /\ event.side = 1 /\ event.damage > 0
    /\ get_best_attack(team2.pokemons[team2_pokemon], team1.pokemons[team1_pokemon]) > 0

FaintedAtLoopHead ==
    /\ bpc = "loop"
    /\ AnyAlive(team1) /\ AnyAlive(team2)
    /\ \/ Fainted(get_current_pokemon(team1))
       \/ Fainted(get_current_pokemon(team2))

\* C8: an iteration that starts with a fainted current Pokemon on either
\* side only makes the forced change: no decision is taken or applied, no
\* attack or voluntary switch is reported, no hit points change, only a side
\* whose current Pokemon has fainted changes its active slot, and the turn
\* counter stays as it is while the loop goes back to its head.
C8_ForcedChangeOnly ==
    [][FaintedAtLoopHead =>
          /\ turn' = turn
          /\ bpc' = "loop"
          /\ team1'.pokemons = team1.pokemons
          /\ team2'.pokemons = team2.pokemons
          /\ event'.kind \notin {"attack", "switch"}
          /\ UNCHANGED <<action1, target1, action2, target2>>
          /\ ~Fainted(get_current_pokemon(team1)) => team1' = team1
          /\ ~Fainted(get_current_pokemon(team2)) => team2' = team2]_vars

\* C8's case: the first iteration found team 1's first Pokemon fainted and
\* moved team 1 to its second one.
C8_Witness ==
    /\ bpc = "loop"
    /\ turn = 0
    /\ event.kind = "faint_change"
    /\ team1.idx = 2
    /\ Fainted(team1.pokemons[1])

\* ---------------------------------------------------- claims on evolution

\* The offspring crossover built last, and the two parents it was built from.
LastChild == children[Len(children)]
Parent1 == teams[ranked_indices[1]]
Parent2 == teams[ranked_indices[2]]
ChildBuilt == epc = "crossover" /\ Len(children) >= 1

Prefix(pokes, n) == {pokes[i].name : i \in 1..(n - 1)}

\* C4 (as claimed): an offspring holds a name twice only when both of its
\* parents hold that name in one and the same slot.
C4_DuplicateOnlyWhenShared ==
    ChildBuilt =>
        \A a, b \in 1..TeamSize :
            (a < b /\ LastChild.pokemons[a].name = LastChild.pokemons[b].name) =>
                \E s \in 1..TeamSize :
                    /\ Parent1.pokemons[s].name = LastChild.pokemons[a].name
                    /\ Parent2.pokemons[s].name = LastChild.pokemons[a].name

\* C4 (amended): an offspring's slot repeats a name of its earlier slots only
\* when the names both parents hold in that slot are among the names of its
\* earlier slots; the two names need not be the same.
C4_DuplicateOnlyWhenForced ==
    ChildBuilt =>
        \A b \in 1..TeamSize :
            LastChild.pokemons[b].name \in Prefix(LastChild.pokemons, b) =>
                /\ Parent1.pokemons[b].name \in Prefix(LastChild.pokemons, b)
                /\ Parent2.pokemons[b].name \in Prefix(LastChild.pokemons, b)

\* C4's case: an offspring with a repeated name in a slot where its parents
\* hold two different names.
C4_Witness ==
    /\ ChildBuilt
    /\ \E b \in 1..TeamSize :
          /\ LastChild.pokemons[b].name \in Prefix(LastChild.pokemons, b)
          /\ Parent1.pokemons[b].name # Parent2.pokemons[b].name

Ids(team) == {team.pokemons[j].id : j \in 1..Len(team.pokemons)}

AllTeams == teams \o children

\* C5 (as claimed): no Pokemon object is held by two teams, parents and
\* offspring included.
C5_NoSharedInstances ==
    \A a, b \in 1..Len(AllTeams) :
        a # b => Ids(AllTeams[a]) \cap Ids(AllTeams[b]) = {}

\* C6: every team of the population and every offspring holds exactly
\* TeamSize Pokemon, in every epoch, during crossover and after mutation.
C6_TeamSizeKept ==
    /\ Len(teams) = PopSize
    /\ \A a \in 1..Len(AllTeams) : Len(AllTeams[a].pokemons) = TeamSize

\* C6's case: the population of the second epoch, made by crossover and a
\* mutation that replaced a Pokemon.
C6_Witness ==
    /\ epc = "evaluate"
    /\ k = 2
    /\ \E a \in 1..Len(teams) : \E j \in 1..TeamSize : teams[a].pokemons[j].id[1] >= 1

PositionIn(pop, team) == CHOOSE i \in 1..Len(pop) : pop[i] = team

\* C10: what evaluate_fitness returns is in descending order of wins, teams
\* with the same wins keep the order they had in the population, and the
\* entry of the score list at a position names the team at that position.
C10_StableDescending ==
    epc = "write" =>
        /\ Len(teams) = Len(population)
        /\ Len(fitness_results) = Len(teams)
        /\ \A a \in 1..Len(teams) : \E i \in 1..Len(population) : population[i] = teams[a]
        /\ \A a \in 1..Len(teams) : fitness_results[a][1] = teams[a].name
        /\ \A a, b \in 1..Len(teams) :
              a < b =>
                 /\ fitness_results[a][2] >= fitness_results[b][2]
                 /\ fitness_results[a][2] = fitness_results[b][2] =>
                       PositionIn(population, teams[a]) < PositionIn(population, teams[b])

\* C10's case: a ranking with two teams of the same number of wins.
C10_Witness ==
    /\ epc = "write"
    /\ \E a, b \in 1..Len(teams) :
          a < b /\ fitness_results[a][2] = fitness_results[b][2]

\* The battles of the last evaluation that team i of the population fought
\* against the opponent named name.
FightsOf(i, name) ==
    {n \in 1..Len(fights) : fights[n].team = i /\ fights[n].opponent = name}

WinsOf(i) == {n \in 1..Len(fights) : fights[n].team = i /\ fights[n].won}

C12_EpochSchedule ==
    /\ epc = "evaluate" =>
          k <= Epochs /\ evaluations = k - 1 /\ crossovers = k - 1 /\ mutations = k - 1
    /\ epc = "write" =>
          evaluations = k /\ crossovers = k - 1 /\ mutations = k - 1
    /\ epc = "crossover" =>
          /\ k < Epochs
          /\ evaluations = k
          /\ mutations = k - 1
          /\ crossovers = IF Len(children) = PopSize THEN k ELSE k - 1
    /\ epc \in {"return", "done"} =>
          /\ k = Epochs
          /\ evaluations = Epochs
          /\ crossovers = Epochs - 1
          /\ mutations = Epochs - 1
    /\ epc = "done" =>
          /\ battle_team = team_named(population, fitness_results[1][1])
          /\ \A a \in 1..Len(fitness_results) :
                fitness_results[1][2] >= fitness_results[a][2]
          /\ Len(best_teams_file) = Epochs

\* A finished run that returned an offspring of the last crossover which
\* was not the first of its population before it was evaluated.
C12_Witness ==
    /\ epc = "done"
    /\ crossovers = Epochs - 1
    /\ mutations = Epochs - 1
    /\ battle_team.name[2] = Epochs - 1
    /\ battle_team # population[1]

\* Every team that exists: the population, the offspring being built and
\* the opponent pool of the evaluation.
EveryTeam == teams \o children \o opponents

\* C13: no team of the population, of the offspring or of an opponent pool
\* ever holds a legendary Pokemon.
C13_NoLegendary ==
    \A t \in 1..Len(EveryTeam) : \A j \in 1..Len(EveryTeam[t].pokemons) :
        ~is_legendary(EveryTeam[t].pokemons[j].name)

\* An evaluated offspring generation with its opponent pool, one Pokemon of
\* which came from mutation.
C13_Witness ==
    /\ epc = "write"
    /\ Len(opponents) = OpponentsCount
    /\ \E i \in 1..Len(teams) : \E j \in 1..TeamSize :
          /\ teams[i].name[2] >= 1
          /\ teams[i].pokemons[j].id[1] >= 1

C15_BestRecordOfEpoch ==
    (k >= 1 /\ Len(best_teams_file) = k) =>
        /\ best_teams_file[k].epoch = k
        /\ best_teams_file[k].fitness = fitness_results[1][2]
        /\ best_teams_file[k].team_name = teams[1].name
        /\ best_teams_file[k].starter = 0
        /\ best_teams_file[k].pokemons =
              [j \in 1..Len(teams[1].pokemons) |-> teams[1].pokemons[j].name]
        /\ best_teams_file[k].epoch = epochs_file[k].epoch

SwitchThenAttack == bpc = "post" /\ action1 = "switch" /\ action2 = "attack"

\* C17: in a turn where team 1 switches and team 2 attacks, the damage is
\* that of team 2's attack on the Pokemon team 1 had active when the turn
\* began, it is taken from that Pokemon's hit points, and the hit points of
\* team 1's Pokemon that came in are those it had when the turn began.
C17_AttackHitsSwitchedOut ==
    SwitchThenAttack =>
        LET out == start[1].idx
            came_in == team1.idx
            damage == get_best_attack(start[2].pokemons[start[2].idx],
                                      start[1].pokemons[out])
        IN  /\ came_in = target1
            /\ came_in # out
            /\ team1_pokemon = out
            /\ event.damage = damage
            /\ team1.pokemons[out].current_hp = start[1].pokemons[out].current_hp - damage
            /\ team1.pokemons[came_in].current_hp
                  = start[1].pokemons[came_in].current_hp

\* Such a turn in which the attack did damage and would have done a
\* different damage to the Pokemon that came in.
C17_Witness ==
    /\ SwitchThenAttack
    /\ event.damage > 0
    /\ get_best_attack(team2.pokemons[team2_pokemon], get_current_pokemon(team1))
          # event.damage

DistinctNames(ts) ==
    \A a, b \in 1..Len(ts) : a # b => ts[a].name # ts[b].name

\* C18: the names of the teams of a population, and of the offspring built
\* so far, are pairwise different, and the list evaluate_fitness returns is a
\* permutation of the one it was given: the same length, and every team of
\* the input at exactly one position.
C18_RankedIsPermutation ==
    /\ DistinctNames(teams)
    /\ DistinctNames(children)
    /\ epc = "write" =>
          /\ DistinctNames(population)
          /\ Len(teams) = Len(population)
          /\ \A i \in 1..Len(population) :
                Cardinality({a \in 1..Len(teams) : teams[a] = population[i]}) = 1

\* The ranking of an offspring generation that moved the last team of the
\* population to the front.
C18_Witness ==
    /\ epc = "write"
    /\ k > 1
    /\ teams[1] = population[PopSize]
    /\ teams # population
====
